---- MODULE Spec2Model ----
(***************************************************************************)
(* django-polymorphic-tree: the composite metaclass and the constrained    *)
(* parent reference of polymorphic_tree/models.py, and the admin router    *)
(* and child admin of polymorphic_tree/utils/polymorphicadmin.py.          *)
(*                                                                         *)
(* Text is modelled as a sequence of words: the words of a name are the    *)
(* pieces between its underscores, so "nodetype_app_page" is               *)
(* <<"nodetype", "app", "page">>.  A query string is a sequence of         *)
(* parameters.                                                             *)
(***************************************************************************)
EXTENDS Integers, Sequences, FiniteSets, TLC

VARIABLES
    classes,        \* the model classes defined so far: name -> class record
    nodes,          \* the node table: pk -> name of the row's real class
    last,           \* the outcome of the last operation of models.py
    child_models,   \* PolymorphicParentModelAdmin.child_models, as model names
    rows,           \* the base model's table as the admin sees it: pk -> stored polymorphic_ctype
    next_pk,        \* the next primary key the table hands out
    response,       \* the outcome of the last admin request
    child_admin,    \* the PolymorphicChildModelAdmin's declared attributes
    fs_result       \* the outcome of the last call on the child admin

model_vars == <<classes, nodes, last>>
admin_vars == <<child_models, rows, next_pk, response>>
child_vars == <<child_admin, fs_result>>
vars == <<classes, nodes, last, child_models, rows, next_pk, response, child_admin, fs_result>>

\* Python's None
None == "None"

---------------------------------------------------------------------------
(* Bounds *)

\* user classes defined in one run
MaxClasses == 2
\* rows of the node table in one run
MaxNodes == 2

---------------------------------------------------------------------------
(* Sequences *)

\* s.startswith(p), on words
StartsWith(s, p) ==
    /\ Len(p) <= Len(s)
    /\ SubSeq(s, 1, Len(p)) = p

\* s[n:], Python's slice from offset n
SliceFrom(s, n) == SubSeq(s, n + 1, Len(s))

Range(s) == {s[i] : i \in DOMAIN s}

\* reversed(s)
Reversed(s) == [i \in 1..Len(s) |-> s[Len(s) + 1 - i]]

---------------------------------------------------------------------------
(* Classes *)

Root == "PolymorphicMPTTModel"

\* the framework classes below the root, in the root's resolution order
FrameworkMro == <<"MPTTModel", "PolymorphicModel", "Model", "object">>

\* names a run may give its classes, in the order it defines them
ClassNames == <<"node", "page", "file">>

AppLabels == {<<"app">>, <<"nodetype">>}

\* the app the root class lives in, polymorphic_tree
RootAppLabel == <<"polymorphic", "tree">>

\* ChildModel.mro(), most-derived first (single inheritance below the root)
RECURSIVE mro(_, _)
mro(cs, C) ==
    IF C \in DOMAIN cs
    THEN <<C>> \o (IF C = Root THEN FrameworkMro ELSE mro(cs, cs[C].base))
    ELSE IF C \in Range(FrameworkMro)
         THEN SliceFrom(FrameworkMro, (CHOOSE i \in DOMAIN FrameworkMro : FrameworkMro[i] = C) - 1)
         ELSE <<>>

\* isinstance(Model, PolymorphicMPTTModelBase): the classes the composite
\* metaclass produced are the root and everything defined below it
IsComposite(cs, C) == C \in DOMAIN cs

\* issubclass(C, B)
issubclass(cs, C, B) == B \in Range(mro(cs, C))

\* the class attribute can_have_children, looked up along the resolution order
RECURSIVE can_have_children(_, _)
can_have_children(cs, C) ==
    IF C \notin DOMAIN cs THEN TRUE
    ELSE IF cs[C].can_have_children = "True" THEN TRUE
    ELSE IF cs[C].can_have_children = "False" THEN FALSE
    ELSE can_have_children(cs, cs[C].base)

---------------------------------------------------------------------------
(* models.py: the composite metaclass *)

\* PolymorphicMPTTModelBase.table_name_template
table_name_template(app_label, model_name) == <<"nodetype">> \o app_label \o model_name

\* meta.db_table.startswith(meta.app_label + '_'): the table's words begin with
\* the label's words and an underscore, so at least one more word, follows
StartsWithLabel(db_table, app_label) ==
    /\ StartsWith(db_table, app_label)
    /\ Len(db_table) > Len(app_label)

\* the table-name branch of __new__: the name a class ends with, given the
\* name the framework's metaclasses left in its _meta
UpdateTableName(db_table, app_label, abstract) ==
    IF StartsWithLabel(db_table, app_label) /\ ~abstract
    THEN table_name_template(app_label, SliceFrom(db_table, Len(app_label)))
    ELSE db_table

\* name.lower(): the user classes of the model carry lower-case names
module_name(name) == IF name = Root THEN "polymorphicmpttmodel" ELSE name

\* what super().__new__ leaves in _meta.db_table: the Meta's own db_table, the
\* proxied model's table for a proxy, and otherwise app_label + '_' + the
\* lower-cased class name
FrameworkTableName(cs, name, base, app_label, proxy, meta_db_table) ==
    IF proxy THEN cs[base].db_table
    ELSE IF meta_db_table # <<>> THEN meta_db_table
    ELSE app_label \o <<module_name(name)>>

\* PolymorphicMPTTModelBase.__new__(mcs, name, bases, attrs) for a class with
\* the one base `base`: the record of the new class
MetaNew(cs, name, base, app_label, abstract, proxy, meta_db_table, chc) ==
    LET new_class == [base |-> base, app_label |-> app_label, abstract |-> abstract,
                      proxy |-> proxy,
                      db_table |-> FrameworkTableName(cs, name, base, app_label, proxy, meta_db_table),
                      can_have_children |-> chc]
    IN  IF ~IsComposite(cs, base)
        THEN new_class
        ELSE [new_class EXCEPT !.db_table = UpdateTableName(new_class.db_table, app_label, abstract)]

\* Meta.db_table values a class statement may carry; <<>> is "not given"
MetaDbTables == {<<>>, <<"legacy">>, <<"app", "legacy">>}

\* a class statement below the root: class <name>(<base>) with its Meta
DefineClass ==
    /\ Cardinality(DOMAIN classes) <= MaxClasses
    /\ Cardinality(DOMAIN classes) <= Len(ClassNames)
    /\ LET name == ClassNames[Cardinality(DOMAIN classes)]
       IN  \E base \in DOMAIN classes, app_label \in AppLabels, abstract \in BOOLEAN,
              proxy \in BOOLEAN, meta_db_table \in MetaDbTables,
              chc \in {"True", "False", "inherit"} :
             \* a proxy is concrete, names no table and needs a concrete base
             /\ proxy => (~abstract /\ ~classes[base].abstract /\ meta_db_table = <<>>)
             /\ LET c == MetaNew(classes, name, base, app_label, abstract, proxy, meta_db_table, chc)
                IN  /\ classes' = (name :> c) @@ classes
                    /\ last' = [op |-> "define", cls |-> name,
                                before |-> FrameworkTableName(classes, name, base, app_label, proxy, meta_db_table),
                                after |-> c.db_table]
    /\ UNCHANGED <<nodes, admin_vars, child_vars>>

---------------------------------------------------------------------------
(* models.py: the identity resolver *)

\* the loop of _get_base_polymorphic_model over `seq` from position i
RECURSIVE FirstPolymorphicModel(_, _, _)
FirstPolymorphicModel(cs, seq, i) ==
    IF i > Len(seq) THEN None
    ELSE IF IsComposite(cs, seq[i]) /\ seq[i] # Root THEN seq[i]
    ELSE FirstPolymorphicModel(cs, seq, i + 1)

\* _get_base_polymorphic_model(ChildModel); the print statement of its loop
\* writes to standard output and changes nothing here
get_base_polymorphic_model(cs, ChildModel) ==
    FirstPolymorphicModel(cs, Reversed(mro(cs, ChildModel)), 1)

\* the classes _get_base_polymorphic_model may be asked about
AllClasses == DOMAIN classes \cup Range(FrameworkMro)

\* a call of _get_base_polymorphic_model
GetBaseModel ==
    /\ \E C \in AllClasses :
         last' = [op |-> "get_base", cls |-> C, result |-> get_base_polymorphic_model(classes, C)]
    /\ UNCHANGED <<classes, nodes, admin_vars, child_vars>>

---------------------------------------------------------------------------
(* models.py: the node table and the constrained parent reference *)

\* classes a row can be an instance of
Instantiable(cs) == {C \in DOMAIN cs : ~cs[C].abstract}

\* saving a new node of class C: the row records its real class
CreateNode ==
    /\ Len(nodes) < MaxNodes
    /\ \E C \in Instantiable(classes) :
         /\ nodes' = Append(nodes, C)
         /\ last' = [op |-> "create", cls |-> C, pk |-> Len(nodes) + 1]
    /\ UNCHANGED <<classes, admin_vars, child_vars>>

\* the model the 'self' reference of `C` points at: the first concrete class
\* of C's chain, on which the framework resolved the inherited field
RECURSIVE RelTo(_, _)
RelTo(cs, C) ==
    IF C = Root \/ C \notin DOMAIN cs THEN None
    ELSE LET above == RelTo(cs, cs[C].base)
         IN  IF above # None THEN above
             ELSE IF cs[C].abstract THEN None ELSE C

\* values handed to clean(): nothing, a primary key, a live node, and a key
\* that is no integer (a string)
ParentValues ==
    {[kind |-> "none", pk |-> 0], [kind |-> "other", pk |-> 0]}
        \cup {[kind |-> k, pk |-> n] : k \in {"pk", "obj"}, n \in 0..MaxNodes}

\* the rows Model.objects holds: those whose real class derives from Model
TableOf(cs, ns, Model) == {n \in DOMAIN ns : issubclass(cs, ns[n], Model)}

\* TreeForeignKey.clean, the wrapped field: the value as given (a key stays a
\* key, an object an object), or the framework's own ValidationError for a
\* key that names no row of the referenced model
SuperClean(cs, ns, value, instance_cls) ==
    IF value.kind = "pk" /\ value.pk \notin TableOf(cs, ns, RelTo(cs, instance_cls))
    THEN [raised |-> "ValidationError", msg |-> "invalid_choice", value |-> value]
    ELSE [raised |-> None, msg |-> None, value |-> value]

\* `not parent`
IsEmpty(value) == value.kind = "none" \/ (value.kind = "pk" /\ value.pk = 0)

\* the message of the ValidationError of _validate_parent
NoChildrenMsg == "The selected node cannot have child nodes."

\* what _validate_parent ends with at line 80
ParentRejected == [raised |-> "ValidationError", msg |-> NoChildrenMsg]

Accepted == [raised |-> None, msg |-> None]

\* base_model.objects.non_polymorphic().only(...).get(pk=parent) followed by
\* parent.can_have_children: the row comes back as an instance of base_model
\* itself, so the attribute read is base_model's
ValidateParentByKey(cs, ns, pk, instance_cls) ==
    LET base_model == get_base_polymorphic_model(cs, instance_cls)
    IN  IF base_model = None THEN [raised |-> "AttributeError", msg |-> None]
        ELSE IF cs[base_model].abstract THEN [raised |-> "AbstractModelError", msg |-> None]
        ELSE IF pk \notin TableOf(cs, ns, base_model) THEN [raised |-> "DoesNotExist", msg |-> None]
        ELSE IF can_have_children(cs, base_model) THEN Accepted
        ELSE ParentRejected

\* isinstance(parent, PolymorphicMPTTModel) and parent.can_have_children on
\* the live object, whose class is the row's real class
ValidateParentObject(cs, ns, pk) ==
    IF can_have_children(cs, ns[pk]) THEN Accepted ELSE ParentRejected

\* RestrictedTreeForeignKey._validate_parent(parent, model_instance)
validate_parent(cs, ns, parent, instance_cls) ==
    IF IsEmpty(parent) THEN Accepted
    ELSE IF parent.kind = "pk" THEN ValidateParentByKey(cs, ns, parent.pk, instance_cls)
    ELSE IF parent.kind = "obj" THEN ValidateParentObject(cs, ns, parent.pk)
    ELSE [raised |-> "ValueError", msg |-> "Unknown parent value"]

\* RestrictedTreeForeignKey.clean(value, model_instance)
clean(cs, ns, value, instance_cls) ==
    LET cleaned == SuperClean(cs, ns, value, instance_cls)
    IN  IF cleaned.raised # None
        THEN [raised |-> cleaned.raised, msg |-> cleaned.msg, returned |-> None]
        ELSE LET v == validate_parent(cs, ns, cleaned.value, instance_cls)
             IN  IF v.raised # None
                 THEN [raised |-> v.raised, msg |-> v.msg, returned |-> None]
                 ELSE [raised |-> None, msg |-> None, returned |-> cleaned.value]

\* validation of the parent field of a node of class instance_cls
Clean ==
    /\ \E instance_cls \in Instantiable(classes), value \in ParentValues :
         /\ value.kind = "obj" => value.pk \in DOMAIN nodes
         /\ last' = [op |-> "clean", cls |-> instance_cls, value |-> value,
                     result |-> clean(classes, nodes, value, instance_cls)]
    /\ UNCHANGED <<classes, nodes, admin_vars, child_vars>>

ModelNext == DefineClass \/ CreateNode \/ GetBaseModel \/ Clean

---------------------------------------------------------------------------
(* polymorphicadmin.py: the world the parent admin runs in *)

\* rows the base table ever holds in one run
MaxRows == 1
\* entries of child_models
MaxChildModels == 2

\* the declared base model of the admin and the classes below it
AdminBaseModel == "node"

AdminClasses ==
    LET c0 == (Root :> MetaNew(<<>>, Root, "Model", RootAppLabel, TRUE, FALSE, <<>>, "True"))
        c1 == ("node" :> MetaNew(c0, "node", Root, <<"app">>, FALSE, FALSE, <<>>, "inherit")) @@ c0
        c2 == ("page" :> MetaNew(c1, "page", "node", <<"app">>, FALSE, FALSE, <<>>, "inherit")) @@ c1
    IN  ("file" :> MetaNew(c2, "file", "node", <<"app">>, FALSE, FALSE, <<>>, "False")) @@ c2

\* the ContentType table: id -> the model class model_class() gives, None for
\* a content type whose model is gone; "user" is a model outside the tree
ContentTypes ==
    (1 :> "node") @@ (2 :> "page") @@ (3 :> "file") @@ (4 :> "user") @@ (5 :> None)

\* content-type ids a row or a request may carry: the table's, and one more
CtIds == DOMAIN ContentTypes \cup {Cardinality(DOMAIN ContentTypes) + 1}

\* ContentType.objects.get_for_model(model).id
CtIdOf(model) == CHOOSE id \in DOMAIN ContentTypes : ContentTypes[id] = model

\* model._meta.verbose_name
verbose_name(model) == <<"verbose", model>>

\* str(n) and int(s) on the numbers a request can carry
Digits == <<"1", "2", "3", "4", "5", "6", "7", "8", "9">>

FormatInt(n) == IF n = 0 THEN "0" ELSE Digits[n]

\* what ParseInt gives for the ValueError of a text that is no number
NotANumber == 0 - 1

\* int(s)
ParseInt(s) ==
    IF s = "0" THEN 0
    ELSE IF \E i \in DOMAIN Digits : Digits[i] = s
         THEN CHOOSE i \in DOMAIN Digits : Digits[i] = s
         ELSE NotANumber

\* texts a ct_id parameter may hold
CtIdTexts == {FormatInt(n) : n \in {0} \cup CtIds} \cup {"abc"}

\* a parameter of a query string or of a POST body
Param(k, v) == [k |-> k, v |-> v]

RECURSIVE SeqsUpTo(_, _)
SeqsUpTo(S, n) ==
    IF n = 0 THEN {<<>>}
    ELSE LET shorter == SeqsUpTo(S, n - 1)
         IN  shorter \cup {Append(q, x) : q \in shorter, x \in S}

\* query strings of the requests: none, a ct_id, and a ct_id among other
\* parameters or given twice
QueryStrings ==
    {<<>>, <<Param("_popup", "1")>>}
        \cup {<<Param("ct_id", t)>> : t \in CtIdTexts}
        \cup {<<Param("ct_id", t), Param("_popup", "1")>> : t \in {"0", "2"}}
        \cup {<<Param("ct_id", "2"), Param("ct_id", "0")>>}

\* POST bodies of the add URL: the choice form's ct_id, or none
PostBodies == {<<>>} \cup {<<Param("ct_id", t)>> : t \in {"1", "2", "3", "4"}}

\* QueryDict.get(key, default): the last value given for the key
RECURSIVE QueryGet(_, _, _)
QueryGet(query, key, default) ==
    IF query = <<>> THEN default
    ELSE IF query[Len(query)].k = key THEN query[Len(query)].v
    ELSE QueryGet(SubSeq(query, 1, Len(query) - 1), key, default)

\* paths below the base model's admin that reach the catch-all view
Paths == {"preview", "history", "bogus"}

\* the URLs each sub-admin serves
SubAdminUrls(model) == IF model = "page" THEN {"preview", "history"} ELSE {"history"}

NoResponse ==
    [kind |-> "none", exc |-> None, admin |-> None, view |-> None, object_id |-> 0,
     url |-> <<>>, choices |-> <<>>, request |-> None]

Raise(exc) == [NoResponse EXCEPT !.kind = "error", !.exc = exc]

\* real_admin.<view>(request, ...): the request handed to the admin instance
\* registered for `model`
Forward(model, view, object_id) ==
    [NoResponse EXCEPT !.kind = "forward", !.admin = model, !.view = view, !.object_id = object_id]

\* HttpResponseRedirect(url)
Redirect(url) == [NoResponse EXCEPT !.kind = "redirect", !.url = url]

\* the choice form, rendered by render_add_type_form
ChoiceForm(choices) == [NoResponse EXCEPT !.kind = "form", !.choices = choices]

---------------------------------------------------------------------------
(* polymorphicadmin.py: PolymorphicParentModelAdmin *)

\* child_models lists the constructor accepts: subclasses of base_model, each
\* registered once
ChildModelLists ==
    {cm \in SeqsUpTo({M \in DOMAIN AdminClasses : issubclass(AdminClasses, M, AdminBaseModel)},
                     MaxChildModels) :
        \A i, j \in DOMAIN cm : i # j => cm[i] # cm[j]}

\* get_child_model_classes(): the keys of initialized_child_models, in the
\* order __init__ registered them
get_child_model_classes(cm) == cm

\* get_admin_for_model(model): the admin instance registered for the model
get_admin_for_model(cm, model) ==
    IF model \in Range(cm)
    THEN [raised |-> None, admin |-> model]
    ELSE [raised |-> "KeyError", admin |-> None]

\* get_child_type_choices()
get_child_type_choices(cm) ==
    [i \in 1..Len(get_child_model_classes(cm)) |->
        <<CtIdOf(get_child_model_classes(cm)[i]), verbose_name(get_child_model_classes(cm)[i])>>]

\* _get_real_admin_by_ct without the issubclass check
get_real_admin_by_ct_Unchecked(cs, cm, ct_id) ==
    IF ct_id \notin DOMAIN ContentTypes
    THEN [raised |-> "Http404", admin |-> None]
    ELSE IF ContentTypes[ct_id] = None
    THEN [raised |-> "Http404", admin |-> None]
    ELSE get_admin_for_model(cm, ContentTypes[ct_id])

\* _get_real_admin_by_ct(ct_id)
get_real_admin_by_ct(cs, cm, ct_id) ==
    IF ct_id \notin DOMAIN ContentTypes
    THEN [raised |-> "Http404", admin |-> None]
    ELSE LET model_class == ContentTypes[ct_id]
         IN  IF model_class = None
             THEN [raised |-> "Http404", admin |-> None]
             ELSE IF ~issubclass(cs, model_class, AdminBaseModel)
             THEN [raised |-> "PermissionDenied", admin |-> None]
             ELSE get_admin_for_model(cm, model_class)

\* _get_real_admin taking the object id for the identity tag
get_real_admin_ByObjectId(cs, cm, table, object_id) ==
    IF object_id \notin DOMAIN table
    THEN [raised |-> "DoesNotExist", admin |-> None]
    ELSE get_real_admin_by_ct(cs, cm, object_id)

\* _get_real_admin(object_id)
get_real_admin(cs, cm, table, object_id) ==
    IF object_id \notin DOMAIN table
    THEN [raised |-> "DoesNotExist", admin |-> None]
    ELSE get_real_admin_by_ct(cs, cm, table[object_id])

\* form.is_valid() of the choice form: bound, and ct_id one of the choices
ChoiceFormValid(choices, req) ==
    /\ req.method = "POST"
    /\ \E i \in DOMAIN choices : FormatInt(choices[i][1]) = QueryGet(req.post, "ct_id", None)

\* add_type_view without the shortcut for a single choice
add_type_view_NoShortcut(cm, req) ==
    IF Len(get_child_type_choices(cm)) = 0
    THEN Raise("IndexError")
    ELSE IF ChoiceFormValid(get_child_type_choices(cm), req)
    THEN Redirect(<<[k |-> "ct_id", v |-> QueryGet(req.post, "ct_id", None)]>> \o req.query)
    ELSE ChoiceForm(get_child_type_choices(cm))

\* add_type_view(request)
add_type_view(cm, req) ==
    LET extra_qs == req.query
        choices == get_child_type_choices(cm)
    IN  IF Len(choices) = 1
        THEN Redirect(<<[k |-> "ct_id", v |-> FormatInt(choices[1][1])]>> \o extra_qs)
        ELSE IF Len(choices) = 0
        THEN Raise("IndexError")
        ELSE IF ChoiceFormValid(choices, req)
        THEN Redirect(<<[k |-> "ct_id", v |-> QueryGet(req.post, "ct_id", None)]>> \o extra_qs)
        ELSE ChoiceForm(choices)

\* add_view(request)
add_view(cs, cm, req) ==
    LET ct_id == ParseInt(QueryGet(req.query, "ct_id", "0"))
    IN  IF ct_id = NotANumber THEN Raise("ValueError")
        ELSE IF ct_id = 0 THEN add_type_view(cm, req)
        ELSE LET real_admin == get_real_admin_by_ct(cs, cm, ct_id)
             IN  IF real_admin.raised # None THEN Raise(real_admin.raised)
                 ELSE Forward(real_admin.admin, "add_view", 0)

\* change_view(request, object_id)
change_view(cs, cm, table, req) ==
    LET real_admin == get_real_admin(cs, cm, table, req.object_id)
    IN  IF real_admin.raised # None THEN Raise(real_admin.raised)
        ELSE Forward(real_admin.admin, "change_view", req.object_id)

\* delete_view(request, object_id)
delete_view(cs, cm, table, req) ==
    LET real_admin == get_real_admin(cs, cm, table, req.object_id)
    IN  IF real_admin.raised # None THEN Raise(real_admin.raised)
        ELSE Forward(real_admin.admin, "delete_view", req.object_id)

\* subclass_view calling whatever the resolver gave, match or not
subclass_view_NoMatchCheck(cs, cm, req) ==
    LET ct_id == ParseInt(QueryGet(req.query, "ct_id", "0"))
    IN  IF ct_id = NotANumber THEN Raise("ValueError")
        ELSE IF ct_id = 0 THEN Raise("Http404")
        ELSE LET real_admin == get_real_admin_by_ct(cs, cm, ct_id)
             IN  IF real_admin.raised # None THEN Raise(real_admin.raised)
                 ELSE Forward(real_admin.admin, req.path, 0)

\* subclass_view(request, path)
subclass_view(cs, cm, req) ==
    LET ct_id == ParseInt(QueryGet(req.query, "ct_id", "0"))
    IN  IF ct_id = NotANumber THEN Raise("ValueError")
        ELSE IF ct_id = 0 THEN Raise("Http404")
        ELSE LET real_admin == get_real_admin_by_ct(cs, cm, ct_id)
             IN  IF real_admin.raised # None THEN Raise(real_admin.raised)
                 ELSE IF req.path \notin SubAdminUrls(real_admin.admin) THEN Raise("Http404")
                 ELSE Forward(real_admin.admin, req.path, 0)

Request(view, object_id, path, method, query, post) ==
    [view |-> view, object_id |-> object_id, path |-> path, method |-> method,
     query |-> query, post |-> post]

\* GET or POST on the add URL; a forwarded POST saves a row of the chosen class
AddView ==
    /\ \E query \in QueryStrings, post \in PostBodies, method \in {"GET", "POST"} :
         LET req == Request("add", 0, None, method, query, post)
             r == add_view(classes, child_models, req)
         IN  \* a GET carries no body; the choice form is posted to the URL
             \* that showed it, one without a ct_id
             /\ method = "GET" => post = <<>>
             /\ post # <<>> => ParseInt(QueryGet(query, "ct_id", "0")) = 0
             /\ response' = [r EXCEPT !.request = req]
             /\ IF r.kind = "forward" /\ method = "POST"
                THEN /\ next_pk <= MaxRows
                     /\ rows' = (next_pk :> CtIdOf(r.admin)) @@ rows
                     /\ next_pk' = next_pk + 1
                ELSE UNCHANGED <<rows, next_pk>>
    /\ UNCHANGED <<model_vars, child_models, child_vars>>

\* GET or POST on <object_id>/
ChangeView ==
    /\ \E method \in {"GET", "POST"}, object_id \in 1..MaxRows :
         LET req == Request("change", object_id, None, method, <<>>, <<>>)
         IN  response' = [change_view(classes, child_models, rows, req) EXCEPT !.request = req]
    /\ UNCHANGED <<model_vars, child_models, rows, next_pk, child_vars>>

\* GET or POST on <object_id>/delete/; a forwarded POST deletes the row
DeleteView ==
    /\ \E method \in {"GET", "POST"}, object_id \in 1..MaxRows :
         LET req == Request("delete", object_id, None, method, <<>>, <<>>)
             r == delete_view(classes, child_models, rows, req)
         IN  /\ response' = [r EXCEPT !.request = req]
             /\ rows' = IF r.kind = "forward" /\ method = "POST"
                        THEN [pk \in DOMAIN rows \ {object_id} |-> rows[pk]]
                        ELSE rows
    /\ UNCHANGED <<model_vars, child_models, next_pk, child_vars>>

\* a request on any other path below the admin: the catch-all URL
SubclassView ==
    /\ \E path \in Paths, query \in QueryStrings :
         LET req == Request("custom", 0, path, "GET", query, <<>>)
         IN  response' = [subclass_view(classes, child_models, req) EXCEPT !.request = req]
    /\ UNCHANGED <<model_vars, child_models, rows, next_pk, child_vars>>

\* a row written to the base table by other code, with whatever identity tag
\* it stores
StoreRow ==
    /\ next_pk <= MaxRows
    /\ \E ct \in CtIds :
         /\ rows' = (next_pk :> ct) @@ rows
         /\ next_pk' = next_pk + 1
    /\ response' = NoResponse
    /\ UNCHANGED <<model_vars, child_models, child_vars>>

AdminNext == AddView \/ ChangeView \/ DeleteView \/ SubclassView \/ StoreRow

---------------------------------------------------------------------------
(* polymorphicadmin.py: PolymorphicChildModelAdmin *)

\* fieldsets of one base_fieldsets
MaxFieldsets == 2

\* a fieldset (title, {'fields': fields})
Fieldset(title, fields) == [title |-> title, fields |-> fields]

\* PolymorphicChildModelAdmin.extra_fieldset_title
extra_fieldset_title == "Contents"

\* the fields the model form would hold, in the order the form declares them
FormFieldLists == {<<"a", "b", "c", "d">>, <<"d", "a", "c", "b">>, <<"a", "b">>}

\* field lists of the common fieldsets; "x" is a name no form knows
BaseFieldLists == {<<"a", "b">>, <<"a">>, <<"b", "c">>, <<"r">>, <<"x", "a">>}

BaseFieldsetLists ==
    {[i \in DOMAIN fl |-> Fieldset(<<"base", i>>, fl[i])] : fl \in SeqsUpTo(BaseFieldLists, MaxFieldsets)}

DeclaredFieldsetLists == {<<>>, <<Fieldset("own", <<"a", "d">>)>>}

ExcludeLists == {<<>>, <<"d">>}

\* "d" is the field a project may both exclude and make read-only
ReadonlyLists == {<<>>, <<"r">>, <<"c">>, <<"d">>, <<"r", "r">>}

\* the admin classes a project may declare
ChildAdmins ==
    [declared_fieldsets : DeclaredFieldsetLists, base_fieldsets : BaseFieldsetLists,
     exclude : ExcludeLists, readonly_fields : ReadonlyLists, form_fields : FormFieldLists]

\* list.remove(x): s without the first x; s itself when x is not in it
RECURSIVE ListRemove(_, _)
ListRemove(s, x) ==
    IF s = <<>> THEN <<>>
    ELSE IF Head(s) = x THEN Tail(s)
    ELSE <<Head(s)>> \o ListRemove(Tail(s), x)

\* the two loops of get_subclass_fields: every field of every fieldset from
\* position (i, j) on is removed from `fields`
RECURSIVE RemoveCommonFields(_, _, _, _)
RemoveCommonFields(fields, fieldsets, i, j) ==
    IF i > Len(fieldsets) THEN fields
    ELSE IF j > Len(fieldsets[i].fields) THEN RemoveCommonFields(fields, fieldsets, i + 1, 1)
    ELSE RemoveCommonFields(ListRemove(fields, fieldsets[i].fields[j]), fieldsets, i, j + 1)

\* get_form(request, obj, exclude=exclude).base_fields.keys(): the form built
\* without declared fields holds every available field but the excluded ones
FormBaseFields(adm, exclude) ==
    SelectSeq(adm.form_fields, LAMBDA f : f \notin Range(exclude))

\* get_subclass_fields listing the keys of the form only
get_subclass_fields_FormOnly(adm) ==
    LET exclude == adm.exclude \o adm.readonly_fields
        subclass_fields == FormBaseFields(adm, exclude)
    IN  RemoveCommonFields(subclass_fields, adm.base_fieldsets, 1, 1)

\* get_subclass_fields(request, obj)
get_subclass_fields(adm) ==
    LET exclude == adm.exclude \o adm.readonly_fields
        subclass_fields == FormBaseFields(adm, exclude) \o adm.readonly_fields
    IN  RemoveCommonFields(subclass_fields, adm.base_fieldsets, 1, 1)

\* admin.ModelAdmin.get_fieldsets: the declared fieldsets, or one untitled
\* fieldset of the form's fields and the read-only fields
ModelAdminFieldsets(adm) ==
    IF adm.declared_fieldsets # <<>> THEN adm.declared_fieldsets
    ELSE <<Fieldset(None, FormBaseFields(adm, adm.exclude \o adm.readonly_fields) \o adm.readonly_fields)>>

\* get_fieldsets putting the extra fieldset after all the common ones
get_fieldsets_ExtraLast(adm) ==
    IF adm.declared_fieldsets # <<>> \/ adm.base_fieldsets = <<>>
    THEN ModelAdminFieldsets(adm)
    ELSE IF get_subclass_fields(adm) # <<>>
    THEN Append(adm.base_fieldsets, Fieldset(extra_fieldset_title, get_subclass_fields(adm)))
    ELSE adm.base_fieldsets

\* get_fieldsets(request, obj)
get_fieldsets(adm) ==
    IF adm.declared_fieldsets # <<>> \/ adm.base_fieldsets = <<>>
    THEN ModelAdminFieldsets(adm)
    ELSE LET other_fields == get_subclass_fields(adm)
         IN  IF other_fields # <<>>
             THEN <<adm.base_fieldsets[1], Fieldset(extra_fieldset_title, other_fields)>>
                      \o Tail(adm.base_fieldsets)
             ELSE adm.base_fieldsets

\* the admin renders a change form and asks for its fieldsets
GetFieldsets ==
    /\ fs_result' = [op |-> "get_fieldsets", fieldsets |-> get_fieldsets(child_admin), fields |-> <<>>]
    /\ UNCHANGED <<model_vars, admin_vars, child_admin>>

\* a direct call of get_subclass_fields
GetSubclassFields ==
    /\ child_admin.base_fieldsets # <<>>
    /\ fs_result' = [op |-> "get_subclass_fields", fieldsets |-> <<>>, fields |-> get_subclass_fields(child_admin)]
    /\ UNCHANGED <<model_vars, admin_vars, child_admin>>

ChildNext == GetFieldsets \/ GetSubclassFields

---------------------------------------------------------------------------
(* Specifications *)

\* the child admin a specification that makes no call on it holds
NoChildAdmin ==
    [declared_fieldsets |-> <<>>, base_fieldsets |-> <<>>, exclude |-> <<>>,
     readonly_fields |-> <<>>, form_fields |-> <<>>]

NoResult == [op |-> "start", fieldsets |-> <<>>, fields |-> <<>>]

\* models.py: only the root class exists, the table is empty
ModelInit ==
    /\ classes = (Root :> MetaNew(<<>>, Root, "Model", RootAppLabel, TRUE, FALSE, <<>>, "True"))
    /\ nodes = <<>>
    /\ last = [op |-> "start"]
    /\ child_models = <<>>
    /\ rows = <<>>
    /\ next_pk = 1
    /\ response = NoResponse
    /\ child_admin = NoChildAdmin
    /\ fs_result = NoResult

\* the parent admin after __init__: its registry filled from child_models
AdminInit ==
    /\ classes = AdminClasses
    /\ nodes = <<>>
    /\ last = [op |-> "start"]
    /\ child_models \in ChildModelLists
    /\ rows = <<>>
    /\ next_pk = 1
    /\ response = NoResponse
    /\ child_admin = NoChildAdmin
    /\ fs_result = NoResult

\* a child admin class as declared
ChildInit ==
    /\ classes = AdminClasses
    /\ nodes = <<>>
    /\ last = [op |-> "start"]
    /\ child_models = <<>>
    /\ rows = <<>>
    /\ next_pk = 1
    /\ response = NoResponse
    /\ child_admin \in ChildAdmins
    /\ fs_result = NoResult

\* class statements, saved nodes and parent validation (models.py)
SpecModels == ModelInit /\ [][ModelNext]_vars

\* requests to the parent admin (polymorphicadmin.py)
SpecAdmin == AdminInit /\ [][AdminNext]_vars

\* calls on a child admin (polymorphicadmin.py)
SpecChildAdmin == ChildInit /\ [][ChildNext]_vars

---------------------------------------------------------------------------
(* Claims about models.py, under SpecModels *)

\* the last operation validated node p as the parent of a node, p handed over
\* alive or as its key in the table the reference points at
CleanedParent(p) ==
    /\ last.op = "clean"
    /\ last.value.kind \in {"pk", "obj"}
    /\ last.value.pk = p
    /\ p \in TableOf(classes, nodes, RelTo(classes, last.cls))

\* C1: whenever an existing node whose real class has can_have_children false
\* is proposed as a parent, as a live object or as its primary key, clean
\* fails with the ValidationError "The selected node cannot have child nodes."
C1_ChildlessParentRejected ==
    \A p \in DOMAIN nodes :
        (CleanedParent(p) /\ ~can_have_children(classes, nodes[p]))
            => (last.result.raised = "ValidationError" /\ last.result.msg = NoChildrenMsg)

\* C2: whenever an existing node whose real class has can_have_children true
\* is proposed as a parent, as a live object or as its primary key, clean
\* raises nothing and returns the value the wrapped field's cleaning gave
C2_ParentAccepted ==
    \A p \in DOMAIN nodes :
        (CleanedParent(p) /\ can_have_children(classes, nodes[p]))
            => (/\ last.result.raised = None
                /\ last.result.returned = SuperClean(classes, nodes, last.value, last.cls).value)

\* a table name of the normalized form nodetype_{app_label}_{model_name}
IsNormalized(db_table, app_label) ==
    /\ StartsWith(db_table, <<"nodetype">> \o app_label)
    /\ Len(db_table) > 1 + Len(app_label)

\* C6: the table-name rewrite is idempotent: a class statement that reaches
\* the naming rule with a table name already of the form
\* nodetype_{app_label}_{model_name} leaves that name unchanged
C6_RewriteIdempotent ==
    (last.op = "define" /\ IsNormalized(last.before, classes[last.cls].app_label))
        => last.after = last.before

\* C9: a class statement rewrites the table name, to
\* nodetype_{app_label}_{model_name}, exactly when the class is a concrete
\* subclass of the composite root whose table name is still the framework's
\* default {app_label}_{model_name}; every other class keeps its table name
C9_RewriteOnlyDefault ==
    last.op = "define" =>
        LET c == classes[last.cls]
        IN  IF ~c.abstract /\ last.before = c.app_label \o <<last.cls>>
            THEN last.after = <<"nodetype">> \o c.app_label \o <<last.cls>>
            ELSE last.after = last.before

\* C10: _get_base_polymorphic_model(C) is the first class of C's reversed
\* resolution order that the composite metaclass produced and that is not the
\* root, None when there is none; and for a concrete variant C it is a
\* non-abstract model, the first concrete base of C
C10_BaseIsFirstConcrete ==
    last.op = "get_base" =>
        LET r == Reversed(mro(classes, last.cls))
            hits == {i \in DOMAIN r : r[i] \in DOMAIN classes /\ r[i] # Root}
        IN  /\ hits = {} => last.result = None
            /\ hits # {} => \E i \in hits : /\ last.result = r[i]
                                             /\ \A j \in hits : i <= j
            /\ (last.cls \in Instantiable(classes) /\ last.cls # Root)
                   => (/\ last.result # None
                       /\ ~classes[last.result].abstract
                       /\ last.result = RelTo(classes, last.cls))

---------------------------------------------------------------------------
(* Claims about PolymorphicParentModelAdmin, under SpecAdmin.  A step of a  *)
(* request leaves the request in response'; the table the request saw is   *)
(* the unprimed rows.                                                      *)

\* the ct_id a request carries in its query string, 0 when it carries none
CtIdParam(req) == ParseInt(QueryGet(req.query, "ct_id", "0"))

\* the identity tag a request resolves to in table `table`: the stored
\* polymorphic_ctype of its row for change and delete, its ct_id parameter
\* for add and the custom views; 0 when there is none
ResolvedTag(table, req) ==
    IF req.view \in {"change", "delete"}
    THEN IF req.object_id \in DOMAIN table THEN table[req.object_id] ELSE 0
    ELSE IF CtIdParam(req) = NotANumber THEN 0 ELSE CtIdParam(req)

\* the tag names a model class
NamesClass(tag) == tag \in DOMAIN ContentTypes /\ ContentTypes[tag] # None

\* the tag names a model class outside the base model's tree
NamesForeignClass(tag) ==
    NamesClass(tag) /\ ~issubclass(AdminClasses, ContentTypes[tag], AdminBaseModel)

\* C3: a request whose identity tag, stored or given as ct_id, names a class
\* that is no subclass of base_model is never forwarded to a sub-admin: it
\* ends in PermissionDenied
C3_ForeignClassDenied ==
    [][(response'.kind # "none" /\ NamesForeignClass(ResolvedTag(rows, response'.request)))
          => (response'.kind = "error" /\ response'.exc = "PermissionDenied")]_vars

\* a change request was denied because its row stores the tag of a class
\* outside the tree
C3_Witness ==
    /\ response.kind = "error" /\ response.exc = "PermissionDenied"
    /\ response.request.view = "change"
    /\ response.request.object_id \in DOMAIN rows
    /\ NamesForeignClass(rows[response.request.object_id])

\* the (content-type id, verbose name) pairs of the registered variants, in
\* registration order
RegisteredChoices == [i \in DOMAIN child_models |-> <<CtIdOf(child_models[i]), verbose_name(child_models[i])>>]

\* the request posts a ct_id that is one of the registered variants'
ValidSubmission(req) ==
    /\ req.method = "POST"
    /\ req.post # <<>>
    /\ \E i \in DOMAIN child_models : req.post[1].v = FormatInt(CtIdOf(child_models[i]))

\* C4: an add request without ct_id (or with ct_id = 0) is answered, with one
\* registered variant, by a redirect to ?ct_id=<its content-type id> plus the
\* original query string; with two or more, by the choice form whose choices
\* are the registered variants' (id, verbose name) pairs in registration
\* order, and by a redirect to ?ct_id=<chosen id> for a valid submission
C4_AddWithoutType ==
    (response.kind # "none" /\ response.request.view = "add" /\ CtIdParam(response.request) = 0)
        => LET req == response.request
           IN  /\ Len(child_models) = 1 =>
                    /\ response.kind = "redirect"
                    /\ response.url = <<Param("ct_id", FormatInt(CtIdOf(child_models[1])))>> \o req.query
               /\ (Len(child_models) >= 2 /\ ValidSubmission(req)) =>
                    /\ response.kind = "redirect"
                    /\ response.url = <<Param("ct_id", req.post[1].v)>> \o req.query
               /\ (Len(child_models) >= 2 /\ ~ValidSubmission(req)) =>
                    /\ response.kind = "form"
                    /\ response.choices = RegisteredChoices

\* with two variants registered, the second was chosen on the form and the
\* answer is the redirect that keeps the original query string
C4_Witness ==
    /\ Len(child_models) = 2
    /\ response.kind = "redirect"
    /\ response.request.view = "add"
    /\ response.request.query = <<Param("_popup", "1")>>
    /\ response.url = <<Param("ct_id", FormatInt(CtIdOf(child_models[2]))), Param("_popup", "1")>>

\* the view of a sub-admin a change or delete request belongs to
SubAdminView(req) == IF req.view = "change" THEN "change_view" ELSE "delete_view"

\* the request is a change or delete request for a row of the table
ForExistingRow(table, req) ==
    req.view \in {"change", "delete"} /\ req.object_id \in DOMAIN table

\* the answer hands the request to the admin registered for the class the
\* row's tag names, to its view for the request, with the same object id
ForwardedToRowAdmin(table, resp) ==
    /\ resp.kind = "forward"
    /\ resp.admin = ContentTypes[table[resp.request.object_id]]
    /\ resp.admin \in Range(child_models)
    /\ resp.view = SubAdminView(resp.request)
    /\ resp.object_id = resp.request.object_id

\* C7 as stated: for every existing row, a change or delete request for its
\* id is forwarded to the matching view of the admin registered for the class
\* its stored polymorphic_ctype names
C7_EveryRowForwarded ==
    [][(response'.kind # "none" /\ ForExistingRow(rows, response'.request))
          => ForwardedToRowAdmin(rows, response')]_vars

\* the row's tag names a class registered in child_models
TagRegistered(tag) == NamesClass(tag) /\ ContentTypes[tag] \in Range(child_models)

\* C7 amended: for every existing row whose stored polymorphic_ctype names a
\* class registered in child_models, a change or delete request for its id is
\* forwarded to the matching view of the admin registered for that class, with
\* the same object id
C7_RegisteredRowForwarded ==
    [][(/\ response'.kind # "none"
        /\ ForExistingRow(rows, response'.request)
        /\ TagRegistered(rows[response'.request.object_id]))
          => ForwardedToRowAdmin(rows, response')]_vars

\* a delete request for an existing row of a registered variant other than
\* the base model has been forwarded
C7_Witness ==
    /\ response.kind = "forward" /\ response.view = "delete_view"
    /\ response.request.object_id \in DOMAIN rows
    /\ response.admin = ContentTypes[rows[response.request.object_id]]
    /\ response.admin # AdminBaseModel

---------------------------------------------------------------------------
(* Claims about PolymorphicChildModelAdmin, under SpecChildAdmin *)

\* the fields the common fieldsets name
CommonFields(adm) == UNION {Range(adm.base_fieldsets[i].fields) : i \in DOMAIN adm.base_fieldsets}

\* the fields of the admin's form: the available fields that are neither
\* excluded nor read-only, in the order the form declares them
FormFields(adm) ==
    SelectSeq(adm.form_fields, LAMBDA f : f \notin Range(adm.exclude) \cup Range(adm.readonly_fields))

\* the fieldsets get_fieldsets is to return when `extra` are the fields of the
\* synthesized fieldset
Synthesized(adm, extra) ==
    IF extra # <<>>
    THEN <<adm.base_fieldsets[1], Fieldset(extra_fieldset_title, extra)>> \o Tail(adm.base_fieldsets)
    ELSE adm.base_fieldsets

\* C5 as stated: without declared fieldsets and with base_fieldsets, the
\* result is base_fieldsets[0], a fieldset of exactly the form fields that are
\* in no base fieldset, in form order, then base_fieldsets[1:]; base_fieldsets
\* unchanged when there is no such field; the declared fieldsets when the
\* subclass declares them
C5_ExtraIsFormFields ==
    fs_result.op = "get_fieldsets" =>
        /\ (child_admin.declared_fieldsets = <<>> /\ child_admin.base_fieldsets # <<>>)
              => fs_result.fieldsets =
                   Synthesized(child_admin,
                       SelectSeq(FormFields(child_admin), LAMBDA f : f \notin CommonFields(child_admin)))
        /\ child_admin.declared_fieldsets # <<>>
              => fs_result.fieldsets = child_admin.declared_fieldsets

\* no name is listed twice
Distinct(s) == \A i, j \in DOMAIN s : i # j => s[i] # s[j]

\* C5 amended: the synthesized fieldset lists the form fields, in form order,
\* followed by the read-only fields (each listed once), that are in no base
\* fieldset; the rest as stated
C5_ExtraIsFormAndReadonlyFields ==
    (fs_result.op = "get_fieldsets" /\ Distinct(child_admin.readonly_fields)) =>
        /\ (child_admin.declared_fieldsets = <<>> /\ child_admin.base_fieldsets # <<>>)
              => fs_result.fieldsets =
                   Synthesized(child_admin,
                       SelectSeq(FormFields(child_admin) \o child_admin.readonly_fields,
                                 LAMBDA f : f \notin CommonFields(child_admin)))
        /\ child_admin.declared_fieldsets # <<>>
              => fs_result.fieldsets = child_admin.declared_fieldsets

\* common fieldsets covering a and b, a form of a, b, c, d: the fieldset
\* "Contents" of c and d stands right after the first common fieldset
C5_Witness ==
    /\ fs_result.op = "get_fieldsets"
    /\ child_admin.declared_fieldsets = <<>>
    /\ CommonFields(child_admin) = {"a", "b"}
    /\ Len(child_admin.base_fieldsets) = 2
    /\ child_admin.form_fields = <<"a", "b", "c", "d">>
    /\ Len(fs_result.fieldsets) = 3
    /\ fs_result.fieldsets[2] = Fieldset(extra_fieldset_title, <<"c", "d">>)

\* the names the fieldsets `fss` list
FieldsOf(fss) == UNION {Range(fss[i].fields) : i \in DOMAIN fss}

\* C11 as stated: get_subclass_fields returns no field of the exclude list and
\* no field of the read-only list, and every read-only field is listed in the
\* fieldsets get_fieldsets returns
C11_NoExcludedNoReadonlyInExtra ==
    /\ fs_result.op = "get_subclass_fields" =>
           Range(fs_result.fields)
               \cap (Range(child_admin.exclude) \cup Range(child_admin.readonly_fields)) = {}
    /\ fs_result.op = "get_fieldsets" =>
           Range(child_admin.readonly_fields) \subseteq FieldsOf(fs_result.fieldsets)

\* C11 amended: get_subclass_fields returns no excluded field unless the field
\* is read-only as well, and it returns every read-only field that no base
\* fieldset names; when the admin declares no fieldsets of its own, every
\* read-only field is listed in the fieldsets get_fieldsets returns
C11_ReadonlyInExtraExcludedNot ==
    /\ fs_result.op = "get_subclass_fields" =>
           /\ Range(fs_result.fields) \cap Range(child_admin.exclude)
                  \subseteq Range(child_admin.readonly_fields)
           /\ Range(child_admin.readonly_fields) \ CommonFields(child_admin)
                  \subseteq Range(fs_result.fields)
    /\ (fs_result.op = "get_fieldsets" /\ child_admin.declared_fieldsets = <<>>) =>
           Range(child_admin.readonly_fields) \subseteq FieldsOf(fs_result.fieldsets)

\* a form of a, b, c, d with d excluded and c read-only, a and b in the base
\* fieldsets: get_subclass_fields returned c alone
C11_Witness ==
    /\ fs_result.op = "get_subclass_fields"
    /\ child_admin.form_fields = <<"a", "b", "c", "d">>
    /\ child_admin.exclude = <<"d">>
    /\ child_admin.readonly_fields = <<"c">>
    /\ CommonFields(child_admin) = {"a", "b"}
    /\ fs_result.fields = <<"c">>

\* the value the wrapped field's cleaning hands to _validate_parent in `last`
CleanedValue == SuperClean(classes, nodes, last.value, last.cls)

\* C12: whenever the wrapped field's cleaning hands a value to _validate_parent,
\* an empty value is accepted (clean raises nothing and returns it), and a
\* value that is neither empty, nor an integer key, nor a node object makes
\* clean fail with a ValidationError, the class of the error an invalid
\* parent produces
C12_UnknownParentIsValidationError ==
    (last.op = "clean" /\ CleanedValue.raised = None) =>
        /\ IsEmpty(CleanedValue.value)
              => (last.result.raised = None /\ last.result.returned = CleanedValue.value)
        /\ (~IsEmpty(CleanedValue.value) /\ CleanedValue.value.kind \notin {"pk", "obj"})
              => last.result.raised = "ValidationError"

====
